---- MODULE Spec2Model ----
(***************************************************************************)
(* Model of the iSpend backend: the expense collection ("spends"), the     *)
(* DBService methods add_expense / read_expenses / read_stats /            *)
(* read_history (src/utils.py) and the four endpoints that call them       *)
(* (src/main.py), including request validation and response_model          *)
(* validation done by the framework.                                       *)
(*                                                                         *)
(* Amounts are floats in the program; the model uses whole units.          *)
(* Datetimes are whole seconds since 1970-01-01T00:00:00Z.                 *)
(***************************************************************************)
EXTENDS Integers, Sequences, FiniteSets, TLC

\* ---- bounds and the inputs requests are tried with ---------------------------
\* the number of expenses that get submitted
MaxRecords == 2

Owners == {"u1", "u2"}
Years == 2022 .. 2025

Date(y, m, d) == [year |-> y, month |-> m, day |-> d]

ExpenseData(title, sum, date, category) ==
  [title |-> title, sum |-> sum, date |-> date, category |-> category]

\* the request bodies POST /add is tried with; the last one is malformed
ExpenseInputs ==
  {ExpenseData("Coffee", 1, Date(2024, 3, 31), "Food"),
   ExpenseData("Rent",   2, Date(2024, 3, 31), "Food"),
   ExpenseData("Coffee", 2, Date(2024, 3, 30), "Food"),
   ExpenseData("Rent",   1, Date(2024, 3, 30), "Car"),
   ExpenseData("Coffee", 1, Date(2024, 2, 29), "Car"),
   ExpenseData("Coffee", 1, Date(2024, 3, 31), "Bogus")}

ExpenseDates == {e.date : e \in ExpenseInputs}
ToDates == {Date(2024, 3, 30), Date(2024, 3, 31)}
MonthsArgs == {0, 1, 13}
TopArgs == {-1, 0, 1, 2}

NoDate == Date(0, 0, 0)
None == "None"

\* ---- main.py: CategoryName ---------------------------------------------
CategoryName == {"Car", "Insurance", "Food", "Hobbies", "Home", "Other"}

\* ---- calendar (datetime.date / datetime.datetime) ------------------------
IsLeap(y) == y % 4 = 0 /\ (y % 100 # 0 \/ y % 400 = 0)

DaysInMonth(y, m) ==
  IF m = 2 THEN (IF IsLeap(y) THEN 29 ELSE 28)
  ELSE IF m \in {4, 6, 9, 11} THEN 30 ELSE 31

DaysBeforeYear(y) ==
  (y - 1) * 365 + ((y - 1) \div 4) - ((y - 1) \div 100) + ((y - 1) \div 400)

RECURSIVE DaysBeforeMonth(_, _)
DaysBeforeMonth(y, m) ==
  IF m <= 1 THEN 0 ELSE DaysBeforeMonth(y, m - 1) + DaysInMonth(y, m - 1)

ToOrdinal(d) == DaysBeforeYear(d.year) + DaysBeforeMonth(d.year, d.month) + d.day

EpochOrdinal == ToOrdinal(Date(1970, 1, 1))

\* datetime(d.year, d.month, d.day, h, mi, s, tzinfo=utc) as the store keeps it
Datetime(d, h, mi, s) ==
  (ToOrdinal(d) - EpochOrdinal) * 86400 + h * 3600 + mi * 60 + s

FromOrdinal(n) ==
  LET y == CHOOSE yy \in Years : DaysBeforeYear(yy) < n /\ n <= DaysBeforeYear(yy + 1)
      r == n - DaysBeforeYear(y)
      m == CHOOSE mm \in 1 .. 12 :
             DaysBeforeMonth(y, mm) < r /\ r <= DaysBeforeMonth(y, mm) + DaysInMonth(y, mm)
  IN  Date(y, m, r - DaysBeforeMonth(y, m))

\* a datetime read back from the store, coerced to a `date` field
DateOf(ts) == FromOrdinal((ts \div 86400) + EpochOrdinal)

\* to_date.replace(day=1)
ReplaceDay1(d) == Date(d.year, d.month, 1)

\* to_date - relativedelta(months=months)
Abs(x) == IF x < 0 THEN 0 - x ELSE x
Sign(x) == IF x < 0 THEN 0 - 1 ELSE 1

RelativeDelta(months) ==
  IF Abs(months) > 11
  THEN [years  |-> Sign(months) * (Abs(months) \div 12),
        months |-> Sign(months) * (Abs(months) % 12)]
  ELSE [years |-> 0, months |-> months]

MinusMonthsNoClamp(dt, months) ==
  LET rd == RelativeDelta(months)
      y0 == dt.year - rd.years
      m0 == dt.month - rd.months
      y  == IF m0 > 12 THEN y0 + 1 ELSE IF m0 < 1 THEN y0 - 1 ELSE y0
      m  == IF m0 > 12 THEN m0 - 12 ELSE IF m0 < 1 THEN m0 + 12 ELSE m0
  IN  FromOrdinal(DaysBeforeYear(y) + DaysBeforeMonth(y, m) + dt.day)

MinusMonths(dt, months) ==
  LET rd == RelativeDelta(months)
      y0 == dt.year - rd.years
      m0 == dt.month - rd.months
      y  == IF m0 > 12 THEN y0 + 1 ELSE IF m0 < 1 THEN y0 - 1 ELSE y0
      m  == IF m0 > 12 THEN m0 - 12 ELSE IF m0 < 1 THEN m0 + 12 ELSE m0
      dim == DaysInMonth(y, m)
  IN  Date(y, m, IF dt.day < dim THEN dt.day ELSE dim)

\* ---- state ----------------------------------------------------------------
VARIABLES
  store,        \* the "spends" collection: documents in insertion order
  oidCounter,   \* number of ObjectIds generated so far
  submitted,    \* completed add_expense calls: what was sent, which id came back
  pushOrdered,  \* TRUE: the store's $push keeps the order documents arrive in
  last          \* the last request: arguments, what DBService returned, the response

vars == <<store, oidCounter, submitted, pushOrdered, last>>

\* ---- helpers ----------------------------------------------------------------
RECURSIVE Perms(_)
Perms(S) ==
  IF S = {} THEN {<<>>}
  ELSE UNION {{<<x>> \o p : p \in Perms(S \ {x})} : x \in S}

Range(s) == {s[i] : i \in DOMAIN s}

RECURSIVE SumSum(_)
SumSum(s) == IF s = <<>> THEN 0 ELSE s[1].expense.sum + SumSum(Tail(s))

RECURSIVE SumCategoryTotal(_)
SumCategoryTotal(s) ==
  IF s = <<>> THEN 0 ELSE s[1].categorytotal + SumCategoryTotal(Tail(s))

SelectDocs(s, cat) == SelectSeq(s, LAMBDA e : e.expense.category = cat)

\* str(ObjectId)
Str(oid) == ToString(oid)

\* ---- the aggregation pipeline stages of the store ---------------------------
\* lexicographic order of the category strings (a $sort key)
CatRank(c) ==
  CASE c = "Car" -> 1 [] c = "Food" -> 2 [] c = "Hobbies" -> 3
    [] c = "Home" -> 4 [] c = "Insurance" -> 5 [] OTHER -> 6

\* $match: userId equal, expense.date within [$gte from_dt, $lte to_dt]
MatchStage(user_id, from_dt, to_dt) ==
  {doc \in Range(store) :
     /\ doc.userId = user_id
     /\ doc.expense.date >= from_dt
     /\ doc.expense.date <= to_dt}

\* the keys of the three $sort stages
DateDesc(a, b) == a.expense.date > b.expense.date

CatAscSumAsc(a, b) ==
  \/ CatRank(a.expense.category) < CatRank(b.expense.category)
  \/ /\ a.expense.category = b.expense.category
     /\ a.expense.sum < b.expense.sum
CatAscSumDesc(a, b) ==
  \/ CatRank(a.expense.category) < CatRank(b.expense.category)
  \/ /\ a.expense.category = b.expense.category
     /\ a.expense.sum > b.expense.sum

BucketCatAscDateAsc(a, b) ==
  \/ CatRank(a._id.category) < CatRank(b._id.category)
  \/ /\ a._id.category = b._id.category
     /\ a._id.date < b._id.date

Before(sort, a, b) ==
  CASE sort = "expense.date DESC" -> DateDesc(a, b)
    [] sort = "expense.category ASC, expense.sum DESC" -> CatAscSumDesc(a, b)
    [] sort = "_id.category ASC, _id.date ASC" -> BucketCatAscDateAsc(a, b)

\* $sort: every order of the documents that respects the sort key; documents
\* with equal keys may come out in any order
SortStage(docs, sort) ==
  {p \in Perms(docs) : \A i, j \in DOMAIN p : i < j => ~Before(sort, p[j], p[i])}

\* the order in which documents reach a $group's $push accumulator
GroupInput(sorted, docs) == IF pushOrdered THEN sorted ELSE Perms(docs)

\* { "$slice": ["$list", top] }
Slice(list, top) ==
  IF top >= 0
  THEN SubSeq(list, 1, IF top < Len(list) THEN top ELSE Len(list))
  ELSE SubSeq(list, (IF Len(list) + top > 0 THEN Len(list) + top ELSE 0) + 1, Len(list))

\* {"id": str(e["_id"]), **e["expense"]}
ExpenseDict(doc) ==
  [id |-> Str(doc._id), title |-> doc.expense.title, sum |-> doc.expense.sum,
   date |-> doc.expense.date, category |-> doc.expense.category]

\* ---- utils.py: DBService ----------------------------------------------------
\* insert_one: the driver gives the document a fresh ObjectId
InsertOneReplace(coll, entry, oid) ==
  IF coll = <<>> THEN <<[_id |-> oid] @@ entry>>
  ELSE [coll EXCEPT ![Len(coll)] = [_id |-> oid] @@ entry]
InsertOne(coll, entry, oid) == Append(coll, [_id |-> oid] @@ entry)

\* add_expense: the entry that is inserted
NewEntryLocalDate(user_id, user_expense) ==
  [userId  |-> user_id,
   expense |-> [user_expense EXCEPT !.date = Datetime(user_expense.date, 0, 0, 0) - 3600]]
NewEntry(user_id, user_expense) ==
  [userId  |-> user_id,
   expense |-> [user_expense EXCEPT !.date = Datetime(user_expense.date, 0, 0, 0)]]

FromDt(from_date) == Datetime(from_date, 0, 0, 0)
ToDtNextDay(to_date) == Datetime(to_date, 24, 0, 0)
ToDt(to_date) == Datetime(to_date, 23, 59, 59)

\* read_expenses: every list the call can return
ReadExpenses(user_id, from_date, to_date) ==
  LET matched == MatchStage(user_id, FromDt(from_date), ToDt(to_date))
  IN  {[i \in DOMAIN p |-> ExpenseDict(p[i])] : p \in SortStage(matched, "expense.date DESC")}

\* $group by expense.category: categorytotal = $sum, list = $push of $expense
GroupStats(p, cat) ==
  LET docs == SelectDocs(p, cat)
  IN  [_id |-> cat, categorytotal |-> SumSum(docs),
       list |-> [i \in DOMAIN docs |-> docs[i].expense]]

\* the for-loop of read_stats over the aggregation cursor
StatsResult(aggr_cat) ==
  [total |-> SumCategoryTotal(aggr_cat),
   category_stats |->
     [i \in DOMAIN aggr_cat |->
        [categoryname |-> aggr_cat[i]._id,
         total        |-> aggr_cat[i].categorytotal,
         expenselist  |-> aggr_cat[i].list]]]

\* read_stats: every (total, category_stats) the call can return
ReadStats(user_id, from_date, to_date, top) ==
  LET matched == MatchStage(user_id, FromDt(from_date), ToDt(to_date))
      cats    == {doc.expense.category : doc \in matched}
      Project(g) == [_id |-> g._id, categorytotal |-> g.categorytotal,
                     list |-> Slice(g.list, top)]
  IN  {StatsResult([i \in DOMAIN order |-> Project(GroupStats(p, order[i]))]) :
         <<p, order>> \in
           GroupInput(SortStage(matched, "expense.category ASC, expense.sum DESC"), matched) \X Perms(cats)}

\* first $group of read_history: one bucket per (category, date), total = $sum
RECURSIVE SumDocs(_)
SumDocs(S) ==
  IF S = {} THEN 0
  ELSE LET d == CHOOSE x \in S : TRUE IN d.expense.sum + SumDocs(S \ {d})

Buckets(matched) ==
  {[_id   |-> [category |-> k[1], date |-> k[2]],
    total |-> SumDocs({doc \in matched :
                         doc.expense.category = k[1] /\ doc.expense.date = k[2]})] :
     k \in {<<doc.expense.category, doc.expense.date>> : doc \in matched}}

\* second $group of read_history: history = $push of {date, total}
GroupHistory(p, cat) ==
  LET bs == SelectSeq(p, LAMBDA b : b._id.category = cat)
  IN  [_id |-> cat,
       history |-> [i \in DOMAIN bs |-> [date |-> bs[i]._id.date, total |-> bs[i].total]]]

\* read_history: every list the call can return
ReadHistory(user_id, from_date, to_date) ==
  LET matched == MatchStage(user_id, FromDt(from_date), ToDt(to_date))
      buckets == Buckets(matched)
      cats    == {b._id.category : b \in buckets}
  IN  {[i \in DOMAIN order |->
          [categoryname |-> GroupHistory(p, order[i])._id,
           history      |-> GroupHistory(p, order[i]).history]] :
         <<p, order>> \in
           GroupInput(SortStage(buckets, "_id.category ASC, _id.date ASC"), buckets) \X Perms(cats)}

\* find_one({"_id": oid})
FindOne(coll, oid) == CHOOSE doc \in Range(coll) : doc._id = oid

\* ---- main.py: request and response models -----------------------------------
\* ExpenseData: category must be a CategoryName
ValidExpenseData(new_expense) == new_expense.category \in CategoryName

\* Expense: id, title, sum, date and category are all required
ValidExpense(e) ==
  /\ {"id", "title", "sum", "date", "category"} \subseteq DOMAIN e
  /\ e.category \in CategoryName

\* an Expense of a response: the stored datetime becomes a date
Expense(e) ==
  [id |-> e.id, title |-> e.title, sum |-> e.sum, date |-> DateOf(e.date),
   category |-> e.category]

\* MonthlyStats / CategoryStats: every entry of every expenselist is an Expense
ValidMonthlyStats(stats) ==
  \A i \in DOMAIN stats : \A k \in DOMAIN stats[i].expenselist :
    ValidExpense(stats[i].expenselist[k])

MonthlyStats(total, stats) ==
  [monthtotal |-> total,
   categorystats |->
     [i \in DOMAIN stats |->
        [categoryname |-> stats[i].categoryname,
         total        |-> stats[i].total,
         expenselist  |-> [k \in DOMAIN stats[i].expenselist |->
                             Expense(stats[i].expenselist[k])]]]]

\* List[CategoryHistory] with CategoryHistoryPoint(date, total)
CategoryHistoryList(history) ==
  [i \in DOMAIN history |->
     [categoryname |-> history[i].categoryname,
      history |-> [k \in DOMAIN history[i].history |->
                     [date  |-> DateOf(history[i].history[k].date),
                      total |-> history[i].history[k].total]]]]

Request(op, owner, to_date, from_date, n, input) ==
  [op |-> op, owner |-> owner, to_date |-> to_date, from_date |-> from_date,
   n |-> n, input |-> input]

Outcome(reached, status, ret, body) ==
  [reached |-> reached, status |-> status, ret |-> ret, body |-> body]

\* ---- main.py: the endpoints ---------------------------------------------------
\* POST /add
add_new_expense(owner, new_expense) ==
  \/ /\ ~ValidExpenseData(new_expense)
     /\ last' = Request("submit_expense", owner, NoDate, NoDate, 0, new_expense)
                  @@ Outcome(FALSE, 422, None, None)
     /\ UNCHANGED <<store, oidCounter, submitted, pushOrdered>>
  \/ /\ ValidExpenseData(new_expense)
     /\ Len(store) < MaxRecords
     /\ LET new_id == oidCounter + 1
            coll   == InsertOne(store, NewEntry(owner, new_expense), new_id)
            ret    == ExpenseDict(FindOne(coll, new_id))
        IN  /\ store' = coll
            /\ oidCounter' = new_id
            /\ submitted' = Append(submitted,
                 [owner |-> owner, expense |-> new_expense, id |-> Expense(ret).id])
            /\ last' = Request("submit_expense", owner, NoDate, NoDate, 0, new_expense)
                         @@ Outcome(TRUE, 200, ret, Expense(ret))
     /\ UNCHANGED pushOrdered

\* GET /recent
get_recent_expenses(owner, to_date) ==
  /\ LET from_date == ReplaceDay1(to_date)
     IN  \E ret \in ReadExpenses(owner, from_date, to_date) :
           last' = Request("get_recent", owner, to_date, from_date, 0, None)
                     @@ Outcome(TRUE, 200, ret, [i \in DOMAIN ret |-> Expense(ret[i])])
  /\ UNCHANGED <<store, oidCounter, submitted, pushOrdered>>

\* GET /history
get_historic_expenses(owner, to_date, months) ==
  /\ LET from_date == MinusMonths(to_date, months)
     IN  \E ret \in ReadHistory(owner, from_date, to_date) :
           last' = Request("get_history", owner, to_date, from_date, months, None)
                     @@ Outcome(TRUE, 200, ret, CategoryHistoryList(ret))
  /\ UNCHANGED <<store, oidCounter, submitted, pushOrdered>>

\* GET /monthstats
get_monthly_statistics(owner, to_date, top) ==
  /\ LET from_date == ReplaceDay1(to_date)
     IN  \E ret \in ReadStats(owner, from_date, to_date, top) :
           last' = Request("get_month_stats", owner, to_date, from_date, top, None)
                     @@ IF ValidMonthlyStats(ret.category_stats)
                        THEN Outcome(TRUE, 200, ret,
                                     MonthlyStats(ret.total, ret.category_stats))
                        ELSE Outcome(TRUE, 500, ret, None)
  /\ UNCHANGED <<store, oidCounter, submitted, pushOrdered>>

\* ---- specification ----------------------------------------------------------
InitCommon ==
  /\ store = <<>>
  /\ oidCounter = 0
  /\ submitted = <<>>
  /\ last = Request("none", None, NoDate, NoDate, 0, None) @@ Outcome(FALSE, 0, None, None)

Init == InitCommon /\ pushOrdered = TRUE

\* the store's grouping step is free to emit pushed elements in any order
InitMay == InitCommon /\ pushOrdered = FALSE

Next ==
  \/ \E owner \in Owners, e \in ExpenseInputs : add_new_expense(owner, e)
  \/ \E owner \in Owners, t \in ToDates : get_recent_expenses(owner, t)
  \/ \E owner \in Owners, t \in ToDates, months \in MonthsArgs :
       get_historic_expenses(owner, t, months)
  \/ \E owner \in Owners, t \in ToDates, top \in TopArgs :
       get_monthly_statistics(owner, t, top)

Spec == Init /\ [][Next]_vars

SpecMay == InitMay /\ [][Next]_vars

TypeOK ==
  /\ Len(store) <= MaxRecords
  /\ oidCounter = Len(store)

\* ---- what the claims speak of ------------------------------------------------
DateLE(a, b) ==
  \/ a.year < b.year
  \/ a.year = b.year /\ a.month < b.month
  \/ a.year = b.year /\ a.month = b.month /\ a.day <= b.day

NextDay(d) ==
  IF d.day < DaysInMonth(d.year, d.month) THEN Date(d.year, d.month, d.day + 1)
  ELSE IF d.month < 12 THEN Date(d.year, d.month + 1, 1)
  ELSE Date(d.year + 1, 1, 1)

FirstOfMonth(d) == Date(d.year, d.month, 1)

\* the completed submissions of owner dated within [from, to]
Owned(owner, from, to) ==
  {i \in DOMAIN submitted :
     /\ submitted[i].owner = owner
     /\ DateLE(from, submitted[i].expense.date)
     /\ DateLE(submitted[i].expense.date, to)}

OwnedIn(owner, from, to, cat) ==
  {i \in Owned(owner, from, to) : submitted[i].expense.category = cat}

RECURSIVE SumAmounts(_)
SumAmounts(I) ==
  IF I = {} THEN 0
  ELSE LET i == CHOOSE x \in I : TRUE IN submitted[i].expense.sum + SumAmounts(I \ {i})

\* position of the submission that got this id
SubIdx(id) == CHOOSE i \in DOMAIN submitted : submitted[i].id = id

MonthWindow == Owned(last.owner, FirstOfMonth(last.to_date), last.to_date)

Min(a, b) == IF a < b THEN a ELSE b

\* C1: the month_total that get_month_stats returns for a positive top equals
\* the sum of the amounts of the owner's records dated within
\* [first day of to_date's month, to_date].
C1_MonthTotalIsWindowSum ==
  (last.op = "get_month_stats" /\ last.n > 0) =>
    /\ last.status = 200
    /\ last.body.monthtotal = SumAmounts(MonthWindow)

\* What read_stats itself hands to the endpoint: its total is the window sum
\* for every top, before the response is validated.
ReadStatsTotalIsWindowSum ==
  last.op = "get_month_stats" => last.ret.total = SumAmounts(MonthWindow)

\* C2: read_expenses returns only records of the owner dated within [from, to],
\* by date descending; a record dated to_date is in the list, a record dated
\* to_date + 1 day is not.
C2_ListInRange ==
  last.op = "get_recent" =>
    LET ret == last.ret IN
    /\ \A k \in DOMAIN ret :
         \E i \in Owned(last.owner, last.from_date, last.to_date) :
           submitted[i].id = ret[k].id
    /\ \A k, l \in DOMAIN ret :
         k < l => DateLE(submitted[SubIdx(ret[l].id)].expense.date,
                         submitted[SubIdx(ret[k].id)].expense.date)
    /\ \A i \in DOMAIN submitted :
         submitted[i].owner = last.owner =>
           /\ submitted[i].expense.date = last.to_date =>
                \E k \in DOMAIN ret : ret[k].id = submitted[i].id
           /\ submitted[i].expense.date = NextDay(last.to_date) =>
                \A k \in DOMAIN ret : ret[k].id # submitted[i].id

C2_Witness ==
  /\ last.op = "get_recent"
  /\ Len(last.ret) = 1
  /\ \E i, j \in DOMAIN submitted :
       /\ submitted[i].owner = last.owner
       /\ submitted[j].owner = last.owner
       /\ submitted[i].expense.date = last.to_date
       /\ submitted[j].expense.date = NextDay(last.to_date)

\* C3: a record submitted by the owner with a date within
\* [first day of to_date's month, to_date] is in the list get_recent returns
\* exactly once, with the title, amount, date and category that were submitted
\* and the id that the submission returned, whatever was submitted afterwards.
C3_RoundTrip ==
  last.op = "get_recent" =>
    /\ last.status = 200
    /\ \A i \in MonthWindow :
         LET hits == {k \in DOMAIN last.body : last.body[k].id = submitted[i].id} IN
         /\ Cardinality(hits) = 1
         /\ \A k \in hits :
              /\ last.body[k].title = submitted[i].expense.title
              /\ last.body[k].sum = submitted[i].expense.sum
              /\ last.body[k].date = submitted[i].expense.date
              /\ last.body[k].category = submitted[i].expense.category

C3_Witness ==
  /\ last.op = "get_recent"
  /\ Len(submitted) = 2
  /\ 1 \in MonthWindow
  /\ submitted[2].owner # last.owner
  /\ Len(last.body) = 1

Injections(D, R) == {f \in [D -> R] : \A a, b \in D : a # b => f[a] # f[b]}

\* C4: for a positive top = n, read_stats returns for each category with k
\* matching records one entry whose list holds exactly min(n, k) records, by
\* amount descending, none smaller than a matching record left out, and whose
\* total is the sum of all k matching amounts.
C4_TopNByCategory ==
  (last.op = "get_month_stats" /\ last.n > 0) =>
    \A cat \in CategoryName :
      LET idxs    == OwnedIn(last.owner, FirstOfMonth(last.to_date), last.to_date, cat)
          stats   == last.ret.category_stats
          entries == {e \in DOMAIN stats : stats[e].categoryname = cat}
      IN  idxs # {} =>
            /\ Cardinality(entries) = 1
            /\ \A e \in entries :
                 LET list == stats[e].expenselist IN
                 /\ Len(list) = Min(last.n, Cardinality(idxs))
                 /\ stats[e].total = SumAmounts(idxs)
                 /\ \A k, l \in DOMAIN list : k < l => list[k].sum >= list[l].sum
                 /\ \E f \in Injections(DOMAIN list, idxs) :
                      /\ \A k \in DOMAIN list :
                           /\ list[k].title = submitted[f[k]].expense.title
                           /\ list[k].sum = submitted[f[k]].expense.sum
                           /\ list[k].category = cat
                           /\ list[k].date = Datetime(submitted[f[k]].expense.date, 0, 0, 0)
                      /\ \A j \in idxs \ {f[k] : k \in DOMAIN list} :
                           \A k \in DOMAIN list : submitted[j].expense.sum <= list[k].sum

C4_Witness ==
  /\ last.op = "get_month_stats"
  /\ last.n = 1
  /\ \E cat \in CategoryName :
       LET idxs == OwnedIn(last.owner, FirstOfMonth(last.to_date), last.to_date, cat) IN
       /\ Cardinality(idxs) = 2
       /\ \E i, j \in idxs : submitted[i].expense.sum < submitted[j].expense.sum
       /\ \E e \in DOMAIN last.ret.category_stats :
            /\ last.ret.category_stats[e].categoryname = cat
            /\ Len(last.ret.category_stats[e].expenselist) = 1
            /\ last.ret.category_stats[e].total = 3

Malformed ==
  \/ last.op = "submit_expense" /\ last.input.category \notin CategoryName
  \/ last.op = "get_history" /\ last.n <= 0
  \/ last.op = "get_month_stats" /\ last.n <= 0

\* C5: a request with an unknown category, a non-positive months or a
\* non-positive top is rejected with a validation error and never reaches the
\* store.
C5_MalformedRejected ==
  Malformed => (last.status = 422 /\ ~last.reached)

\* C6: the store holds exactly one record per completed submit_expense call,
\* all with different ids; a step adds at most one record, with an id no
\* record had before, and leaves every record that exists as it is.
C6_AppendOnlyLedger ==
  /\ [](/\ Len(store) = Len(submitted)
        /\ \A i, j \in DOMAIN store : i # j => store[i]._id # store[j]._id
        /\ \A i \in DOMAIN store : Str(store[i]._id) = submitted[i].id)
  /\ [][/\ \A i \in DOMAIN store : i \in DOMAIN store' /\ store'[i] = store[i]
        /\ Len(store') <= Len(store) + 1
        /\ (Len(store') = Len(store) + 1) <=> (Len(submitted') = Len(submitted) + 1)
        /\ \A i \in DOMAIN store' \ DOMAIN store :
             \A j \in DOMAIN store : store'[i]._id # store[j]._id]_vars

C6_Witness ==
  /\ Len(submitted) = 2
  /\ submitted[1].owner = submitted[2].owner
  /\ submitted[1].expense = submitted[2].expense
  /\ Len(store) = 2
  /\ store[1]._id # store[2]._id
  /\ store[1].expense = store[2].expense

\* C7: get_history returns an entry for exactly the categories with a record
\* of the owner in the window; each entry has one bucket per distinct day with
\* that day's sum, and its buckets are strictly increasing by date whatever
\* order the store's grouping step emits them in.
C7_HistoryBuckets ==
  last.op = "get_history" =>
    LET W    == Owned(last.owner, last.from_date, last.to_date)
        body == last.body
    IN  /\ last.status = 200
        /\ {body[e].categoryname : e \in DOMAIN body}
             = {submitted[i].expense.category : i \in W}
        /\ \A e, g \in DOMAIN body :
             e # g => body[e].categoryname # body[g].categoryname
        /\ \A e \in DOMAIN body :
             LET h  == body[e].history
                 Wc == {i \in W : submitted[i].expense.category = body[e].categoryname}
             IN  /\ {h[k].date : k \in DOMAIN h} = {submitted[i].expense.date : i \in Wc}
                 /\ \A k \in DOMAIN h :
                      h[k].total =
                        SumAmounts({i \in Wc : submitted[i].expense.date = h[k].date})
                 /\ \A k, l \in DOMAIN h :
                      k < l => (DateLE(h[k].date, h[l].date) /\ h[k].date # h[l].date)

\* C8: in the list read_expenses returns, two records with the same date
\* appear in insertion order.
C8_TiesInInsertionOrder ==
  last.op = "get_recent" =>
    \A k, l \in DOMAIN last.ret :
      (k < l /\ last.ret[k].date = last.ret[l].date)
        => SubIdx(last.ret[k].id) < SubIdx(last.ret[l].id)

\* to_date moved back by n calendar months, the day cut down to the length of
\* the month arrived at
MonthsBack(d, n) ==
  LET t == d.year * 12 + (d.month - 1) - n
      y == t \div 12
      m == (t % 12) + 1
  IN  Date(y, m, Min(d.day, DaysInMonth(y, m)))

\* C9: for a positive months, the window of get_history starts at to_date
\* minus months calendar months with the day clamped to the last day of that
\* month, and ends at to_date.
C9_HistoryLowerBound ==
  (last.op = "get_history" /\ last.n > 0) =>
    /\ last.from_date = MonthsBack(last.to_date, last.n)
    /\ last.from_date.day <= DaysInMonth(last.from_date.year, last.from_date.month)
    /\ \A i \in DOMAIN submitted :
         (/\ submitted[i].owner = last.owner
          /\ submitted[i].expense.date \in {MonthsBack(last.to_date, last.n), last.to_date})
           => \E e \in DOMAIN last.body : \E k \in DOMAIN last.body[e].history :
                last.body[e].history[k].date = submitted[i].expense.date

C9_Witness ==
  /\ last.op = "get_history"
  /\ last.n = 1
  /\ last.to_date = Date(2024, 3, 31)
  /\ last.from_date = Date(2024, 2, 29)
  /\ \E i \in DOMAIN submitted :
       /\ submitted[i].owner = last.owner
       /\ submitted[i].expense.date = Date(2024, 2, 29)

\* C10: when a record matches the window, get_month_stats answers with a
\* result in which every entry of every top-N list carries the id, title,
\* amount, date and category of a persisted record.
C10_TopNEntriesAreExpenses ==
  (last.op = "get_month_stats" /\ last.n > 0 /\ MonthWindow # {}) =>
    /\ last.status = 200
    /\ \A e \in DOMAIN last.body.categorystats :
         \A k \in DOMAIN last.body.categorystats[e].expenselist :
           LET x == last.body.categorystats[e].expenselist[k] IN
           \E i \in MonthWindow :
             /\ x.id = submitted[i].id
             /\ x.title = submitted[i].expense.title
             /\ x.sum = submitted[i].expense.sum
             /\ x.date = submitted[i].expense.date
             /\ x.category = submitted[i].expense.category

====
